---- MODULE Spec2Model ----
(***************************************************************************)
(* Model of oamk-electricity.py: the load / clean / dedup / merge pipeline *)
(* (lines 13-38), group_data (lines 41-75), the date-range filter          *)
(* (lines 94-98) and the statistics written by the page (lines 99-134).    *)
(*                                                                         *)
(* Numbers.  Energy, temperature and price are fixed-point integers in     *)
(* tenths (Scale); a bill is kept in 1/BillScale EUR, so that              *)
(* price * energy / 100 is exact.  Means and ratios are fractions          *)
(* [kind, num, den]; kind is "fin", "nan", "inf" or "ninf", the four       *)
(* classes of value an IEEE double division can give.  Rounding of         *)
(* doubles is not modelled.                                                *)
(*                                                                         *)
(* Time.  A timestamp is the number of seconds since 01.01.2024 00:00,     *)
(* which is a Monday.                                                      *)
(***************************************************************************)
EXTENDS Integers, Sequences, FiniteSets, TLC

VARIABLES
    electricity_raw,  \* rows of the readings file as read by read_csv (line 13)
    price_raw,        \* rows of the prices file as read by read_csv (line 14)
    pc,               \* position of the script run
    error,            \* the exception that ended the run, or "none"
    electricity_df,   \* readings after cleaning and drop_duplicates (line 27)
    price_df,         \* prices after cleaning and drop_duplicates (line 28)
    merged_df,        \* line 31-38
    interval,         \* line 88
    grouped_data,     \* line 91
    start_date,       \* line 94
    end_date,         \* line 95
    filtered_data,    \* line 98
    written           \* the st.write lines produced so far (lines 107-134)

vars == <<electricity_raw, price_raw, pc, error, electricity_df, price_df,
          merged_df, interval, grouped_data, start_date, end_date,
          filtered_data, written>>

----------------------------------------------------------------------------
(* Bounds of the model *)

MaxReadings == 2
MaxPrices == 2

(* Units *)

Scale == 10
BillScale == 10000
Minute == 60
Hour == 3600
Day == 86400
Week == 604800

----------------------------------------------------------------------------
(* Sequence helpers *)

Range(s) == {s[i] : i \in 1..Len(s)}

RECURSIVE SumSeq(_)
SumSeq(s) == IF s = <<>> THEN 0 ELSE Head(s) + SumSeq(Tail(s))

Column(df, c) == [i \in 1..Len(df) |-> df[i][c]]

MinOf(S) == CHOOSE x \in S : \A y \in S : x <= y
MaxOf(S) == CHOOSE x \in S : \A y \in S : y <= x

----------------------------------------------------------------------------
(* Line 17-18: .str.replace(',', '.').astype(float)                        *)
(* A cell is a sequence of one-character strings.                          *)

Digits == <<"0", "1", "2", "3", "4", "5", "6", "7", "8", "9">>
IsDigit(c) == \E i \in 1..10 : Digits[i] = c
DigitVal(c) == (CHOOSE i \in 1..10 : Digits[i] = c) - 1

StrReplace(s, old, new) == [i \in 1..Len(s) |-> IF s[i] = old THEN new ELSE s[i]]

Unsigned(s) == IF s # <<>> /\ Head(s) \in {"-", "+"} THEN Tail(s) ELSE s
Points(s) == {i \in 1..Len(s) : s[i] = "."}

\* float(s) accepts: optional sign, digits with at most one point, at least
\* one digit.  (Exponents, "nan", "inf" and underscores are outside the
\* alphabet of the cells drawn here.)
IsFloatLiteral(s) ==
    LET u == Unsigned(s) IN
    /\ \A i \in 1..Len(u) : IsDigit(u[i]) \/ u[i] = "."
    /\ Cardinality(Points(u)) <= 1
    /\ \E i \in 1..Len(u) : IsDigit(u[i])

RECURSIVE DigitsValue(_)
DigitsValue(s) ==
    IF s = <<>> THEN 0 ELSE DigitsValue(SubSeq(s, 1, Len(s) - 1)) * 10 + DigitVal(s[Len(s)])

\* Value of a float literal in tenths; cells carry at most one fractional digit.
FloatValue(s) ==
    LET u == Unsigned(s)
        p == IF Points(u) = {} THEN Len(u) + 1 ELSE CHOOSE i \in Points(u) : TRUE
        ip == SubSeq(u, 1, p - 1)
        fp == SubSeq(u, p + 1, Len(u))
        mag == DigitsValue(ip) * Scale + (IF fp = <<>> THEN 0 ELSE DigitVal(fp[1]))
    IN IF s # <<>> /\ Head(s) = "-" THEN 0 - mag ELSE mag

\* astype(float) converts the whole column or raises ValueError.
AsFloatOk(col) == \A i \in 1..Len(col) : IsFloatLiteral(StrReplace(col[i], ",", "."))
AsFloat(col) == [i \in 1..Len(col) |-> FloatValue(StrReplace(col[i], ",", "."))]

----------------------------------------------------------------------------
(* Line 21-25: str.strip() and pd.to_datetime(..., format=...)             *)
(* A raw time cell is the record of its fields: ws (whitespace around the  *)
(* text), sep (the separator of the date fields), day (the date, counted   *)
(* in days from 01.01.2024), hour, minute and sec (<<>> when the text has  *)
(* no seconds field).                                                      *)

Strip(cell) == [cell EXCEPT !.ws = FALSE]

\* format='%d.%m.%Y %H:%M'
MatchesElectricityFormat(cell) == ~cell.ws /\ cell.sep = "." /\ cell.sec = <<>>
\* format='%d-%m-%Y %H:%M:%S'
MatchesPriceFormat(cell) == ~cell.ws /\ cell.sep = "-" /\ Len(cell.sec) = 1

ToDatetime(cell) ==
    cell.day * Day + cell.hour * Hour + cell.minute * Minute
        + (IF cell.sec = <<>> THEN 0 ELSE cell.sec[1])

----------------------------------------------------------------------------
(* Line 27-28: drop_duplicates(subset='Time'), keep='first' by default     *)

RECURSIVE SelectRows(_, _, _)
SelectRows(df, keep, i) ==
    IF i > Len(df) THEN <<>>
    ELSE (IF i \in keep THEN <<df[i]>> ELSE <<>>) \o SelectRows(df, keep, i + 1)

\* keep='last' in place of keep='first'
drop_duplicates_last(df) ==
    SelectRows(df, {i \in 1..Len(df) : \A j \in (i + 1)..Len(df) : df[j].Time # df[i].Time}, 1)

drop_duplicates(df) ==
    SelectRows(df, {i \in 1..Len(df) : \A j \in 1..(i - 1) : df[j].Time # df[i].Time}, 1)

----------------------------------------------------------------------------
(* Line 31-35: pd.merge(..., on='Time', how='inner', validate='1:1')       *)

UniqueKeys(df) == \A i, j \in 1..Len(df) : df[i].Time = df[j].Time => i = j

\* validate='1:1' raises MergeError unless the keys are unique on both sides
MergeValid(left, right) == UniqueKeys(left) /\ UniqueKeys(right)

JoinRow(l, r) ==
    [Time |-> l.Time, Energy |-> l.Energy, Temperature |-> l.Temperature, Price |-> r.Price]

\* the rows of right matching one row of left, in right's order
RECURSIVE Matches(_, _, _)
Matches(l, right, j) ==
    IF j > Len(right) THEN <<>>
    ELSE (IF right[j].Time = l.Time THEN <<JoinRow(l, right[j])>> ELSE <<>>)
             \o Matches(l, right, j + 1)

\* how='left' in place of how='inner': a reading without a price is kept
RECURSIVE merge_left(_, _, _)
merge_left(left, right, i) ==
    IF i > Len(left) THEN <<>>
    ELSE (IF Matches(left[i], right, 1) = <<>>
          THEN <<JoinRow(left[i], [Price |-> 0])>>
          ELSE Matches(left[i], right, 1)) \o merge_left(left, right, i + 1)

\* an inner join keeps the order of the left keys
RECURSIVE merge(_, _, _)
merge(left, right, i) ==
    IF i > Len(left) THEN <<>>
    ELSE Matches(left[i], right, 1) \o merge(left, right, i + 1)

----------------------------------------------------------------------------
(* Line 38: Bill (EUR) = Price (cent/kWh) * Energy (kWh) / 100             *)

\* the division by 100 left out: the bill in cents
BillOf_cents(price, energy) == (price * energy * BillScale) \div (Scale * Scale)

BillOf(price, energy) == (price * energy * BillScale) \div (Scale * Scale * 100)

WithBill(df) ==
    [i \in 1..Len(df) |->
        [Time |-> df[i].Time, Energy |-> df[i].Energy, Temperature |-> df[i].Temperature,
         Price |-> df[i].Price, Bill |-> BillOf(df[i].Price, df[i].Energy)]]

----------------------------------------------------------------------------
(* Lines 13-38 as one step of the script                                   *)

\* line 17, 18, 24: the cleaned readings table
CleanElectricity(raw) ==
    LET energy == AsFloat(Column(raw, "Energy"))
        temperature == AsFloat(Column(raw, "Temperature"))
    IN [i \in 1..Len(raw) |->
           [Time |-> ToDatetime(Strip(raw[i].Time)),
            Energy |-> energy[i], Temperature |-> temperature[i]]]

\* line 25: the cleaned prices table (read_csv has typed the price column)
CleanPrice(raw) ==
    [i \in 1..Len(raw) |-> [Time |-> ToDatetime(raw[i].Time), Price |-> raw[i].Price]]

\* the exception lines 17-25 raise, or "none"
CleanError(eraw, praw) ==
    IF ~AsFloatOk(Column(eraw, "Energy")) THEN "ValueError"
    ELSE IF ~AsFloatOk(Column(eraw, "Temperature")) THEN "ValueError"
    ELSE IF \E i \in 1..Len(eraw) : ~MatchesElectricityFormat(Strip(eraw[i].Time))
        THEN "ValueError"
    ELSE IF \E i \in 1..Len(praw) : ~MatchesPriceFormat(praw[i].Time) THEN "ValueError"
    ELSE "none"

Load ==
    /\ pc = "start"
    /\ LET err == CleanError(electricity_raw, price_raw)
           edf == drop_duplicates(CleanElectricity(electricity_raw))
           pdf == drop_duplicates(CleanPrice(price_raw))
       IN IF err # "none"
          THEN /\ pc' = "load_failed"
               /\ error' = err
               /\ UNCHANGED <<electricity_df, price_df, merged_df>>
          ELSE IF ~MergeValid(edf, pdf)
          THEN /\ pc' = "load_failed"
               /\ error' = "MergeError"
               /\ electricity_df' = edf
               /\ price_df' = pdf
               /\ UNCHANGED merged_df
          ELSE /\ pc' = "loaded"
               /\ error' = "none"
               /\ electricity_df' = edf
               /\ price_df' = pdf
               /\ merged_df' = WithBill(merge(edf, pdf, 1))
    /\ UNCHANGED <<electricity_raw, price_raw, interval, grouped_data,
                   start_date, end_date, filtered_data, written>>

----------------------------------------------------------------------------
(* Floating-point values of the aggregated table and of the statistics     *)

Abs(n) == IF n < 0 THEN 0 - n ELSE n

RECURSIVE GCD(_, _)
GCD(a, b) == IF b = 0 THEN a ELSE GCD(b, a % b)

\* the finite value n/d (d > 0), in lowest terms
Frac(n, d) ==
    LET g == GCD(Abs(n), d)
    IN [kind |-> "fin", num |-> n \div g, den |-> d \div g]

NaN == [kind |-> "nan", num |-> 0, den |-> 1]
PosInf == [kind |-> "inf", num |-> 0, den |-> 1]
NegInf == [kind |-> "ninf", num |-> 0, den |-> 1]
Zero == Frac(0, 1)

IsFinite(a) == a.kind = "fin"
FAdd(a, b) == Frac(a.num * b.den + b.num * a.den, a.den * b.den)
FLess(a, b) == a.num * b.den < b.num * a.den

\* a - b of two doubles
FSub(a, b) ==
    IF ~IsFinite(a) \/ ~IsFinite(b) THEN NaN
    ELSE Frac(a.num * b.den - b.num * a.den, a.den * b.den)

\* a / b of two numpy.float64 values: a zero divisor gives inf, -inf or nan
\* (with a RuntimeWarning), never an exception
FDiv(a, b) ==
    IF ~IsFinite(a) \/ ~IsFinite(b) THEN NaN
    ELSE IF b.num = 0
         THEN (IF a.num = 0 THEN NaN ELSE IF a.num > 0 THEN PosInf ELSE NegInf)
    ELSE IF b.num > 0 THEN Frac(a.num * b.den, a.den * b.num)
    ELSE Frac(0 - a.num * b.den, a.den * (0 - b.num))

\* the values of a column that are not NaN (skipna=True)
DropNa(col) == SelectSeq(col, IsFinite)

\* sum of col[lo..hi], halving the range
RECURSIVE FSumRange(_, _, _)
FSumRange(col, lo, hi) ==
    IF lo > hi THEN Zero
    ELSE IF lo = hi THEN col[lo]
    ELSE LET mid == (lo + hi) \div 2
         IN FAdd(FSumRange(col, lo, mid), FSumRange(col, mid + 1, hi))

FSumSeq(col) == FSumRange(col, 1, Len(col))

\* Series.sum(): NaN skipped, 0.0 for no values
SeriesSum(col) == FSumSeq(DropNa(col))

\* Series.mean(): NaN skipped, NaN for no values
SeriesMean(col) ==
    LET v == DropNa(col)
    IN IF v = <<>> THEN NaN ELSE FDiv(FSumSeq(v), Frac(Len(v), 1))

\* Series.max() / Series.min(): NaN skipped, NaN for no values
SeriesMax(col) ==
    LET v == DropNa(col)
    IN IF v = <<>> THEN NaN
       ELSE v[CHOOSE i \in 1..Len(v) : \A j \in 1..Len(v) : ~FLess(v[i], v[j])]

SeriesMin(col) ==
    LET v == DropNa(col)
    IN IF v = <<>> THEN NaN
       ELSE v[CHOOSE i \in 1..Len(v) : \A j \in 1..Len(v) : ~FLess(v[j], v[i])]

\* position of the first maximum among the values that are not NaN
ArgMax(col) ==
    CHOOSE i \in 1..Len(col) :
        /\ IsFinite(col[i])
        /\ \A j \in 1..Len(col) : IsFinite(col[j]) => ~FLess(col[i], col[j])
        /\ \A j \in 1..(i - 1) : IsFinite(col[j]) => FLess(col[j], col[i])

----------------------------------------------------------------------------
(* Lines 41-75: group_data, i.e. merged_df.resample(rule, on='Time').agg   *)
(* with 'sum' for energy and bill and 'mean' for price and temperature     *)

Width(rule) == IF rule = "H" THEN Hour ELSE IF rule = "D" THEN Day ELSE Week

\* the weekly bin labelled with the Monday that opens the week
BinLabel_monday(rule, t) ==
    IF rule = "W" THEN t - (t % Week)
    ELSE t - (t % Width(rule))

\* Label of the bin that holds timestamp t.  'H' and 'D' are closed and
\* labelled on the left, anchored at midnight.  'W' is W-SUN, closed and
\* labelled on the right: the bin is labelled with the Sunday 00:00 that
\* ends the week, and holds Monday 00:00 up to that Sunday 23:59:59.
BinLabel(rule, t) ==
    IF rule = "W" THEN t - (t % Week) + 6 * Day
    ELSE t - (t % Width(rule))

\* the timestamps lo <= t < hi that the bin labelled `label` collects
BinLower(rule, label) == IF rule = "W" THEN label - 6 * Day ELSE label
BinUpper(rule, label) == IF rule = "W" THEN label + Day ELSE label + Width(rule)

RowsIn(df, rule, label) ==
    SelectSeq(df, LAMBDA r : BinLower(rule, label) <= r.Time /\ r.Time < BinUpper(rule, label))

\* 'sum' in place of 'mean'
AggMean_sum(rows, c, scale) ==
    IF rows = <<>> THEN NaN ELSE Frac(SumSeq(Column(rows, c)), scale)

\* 'sum' of an empty bin is 0.0, 'mean' of an empty bin is NaN
AggSum(rows, c, scale) == Frac(SumSeq(Column(rows, c)), scale)
AggMean(rows, c, scale) ==
    IF rows = <<>> THEN NaN ELSE Frac(SumSeq(Column(rows, c)), scale * Len(rows))

Bucket(df, rule, label) ==
    LET rows == RowsIn(df, rule, label)
    IN [Time |-> label,
        Energy |-> AggSum(rows, "Energy", Scale),
        Bill |-> AggSum(rows, "Bill", BillScale),
        Price |-> AggMean(rows, "Price", Scale),
        Temperature |-> AggMean(rows, "Temperature", Scale)]

\* one row per record, in the order of the records (a groupby without sort)
resample_unsorted(df, rule) ==
    [k \in 1..Len(df) |-> Bucket(df, rule, BinLabel(rule, df[k].Time))]

\* the bins that hold no record left out
resample_nonempty(df, rule) ==
    IF df = <<>> THEN <<>>
    ELSE LET times == Range(Column(df, "Time"))
             first == BinLabel(rule, MinOf(times))
             last == BinLabel(rule, MaxOf(times))
             all == [k \in 1..((last - first) \div Width(rule) + 1) |->
                        Bucket(df, rule, first + (k - 1) * Width(rule))]
         IN SelectSeq(all, LAMBDA b : RowsIn(df, rule, b.Time) # <<>>)

\* one row per bin from the bin of the earliest timestamp to the bin of the
\* latest, in ascending order, whether or not a record falls into it
resample(df, rule) ==
    IF df = <<>> THEN <<>>
    ELSE LET times == Range(Column(df, "Time"))
             first == BinLabel(rule, MinOf(times))
             last == BinLabel(rule, MaxOf(times))
         IN [k \in 1..((last - first) \div Width(rule) + 1) |->
                Bucket(df, rule, first + (k - 1) * Width(rule))]

Intervals == {"Hourly", "Daily", "Weekly"}

group_data(df, grouping_interval) ==
    IF grouping_interval = "Daily" THEN resample(df, "D")
    ELSE IF grouping_interval = "Weekly" THEN resample(df, "W")
    ELSE resample(df, "H")

\* lines 88-91: the selectbox offers the three intervals only
Group(g) ==
    /\ pc = "loaded"
    /\ pc' = "grouped"
    /\ interval' = g
    /\ grouped_data' = group_data(merged_df, g)
    /\ UNCHANGED <<electricity_raw, price_raw, error, electricity_df, price_df,
                   merged_df, start_date, end_date, filtered_data, written>>

----------------------------------------------------------------------------
(* Lines 94-98: the two date inputs and grouped_data.loc[start:end].  A    *)
(* date bound is cast to the timestamp of its midnight; both ends are      *)
(* inclusive.  The default of a date input over an empty index is not      *)
(* modelled: the step is taken for a non-empty grouped table.              *)

Loc(df, lo, hi) == SelectSeq(df, LAMBDA r : lo * Day <= r.Time /\ r.Time <= hi * Day)

DateChoices == {0, 1, 6, 13}

Filter(s, e) ==
    /\ pc = "grouped"
    /\ grouped_data # <<>>
    /\ pc' = "filtered"
    /\ start_date' = s
    /\ end_date' = e
    /\ filtered_data' = Loc(grouped_data, s, e)
    /\ UNCHANGED <<electricity_raw, price_raw, error, electricity_df, price_df,
                   merged_df, interval, grouped_data, written>>

----------------------------------------------------------------------------
(* Lines 99-134: the derived values and the st.write lines.  A written     *)
(* line is [line, value], line being its number in the source.  The        *)
(* medians (113-116) and standard deviations (125-128) are not modelled;   *)
(* none of them raises.                                                    *)

Written(n, v) == [line |-> n, value |-> v]

\* line 99
price_range(fd) == FSub(SeriesMax(Column(fd, "Price")), SeriesMin(Column(fd, "Price")))
\* line 100
energy_to_bill_ratio(fd) == FDiv(SeriesSum(Column(fd, "Energy")), SeriesSum(Column(fd, "Bill")))
\* line 101
consumption_per_degree(fd) ==
    FDiv(SeriesSum(Column(fd, "Energy")), SeriesMean(Column(fd, "Temperature")))

\* Series.idxmax() of a column with at least one value that is not NaN
IdxMax(fd, c) == Frac(fd[ArgMax(Column(fd, c))].Time, 1)

\* lines 107-110
LinesBeforeIdxMax(fd, s) ==
    << Written(107, Frac(s, 1)),
       Written(108, SeriesSum(Column(fd, "Energy"))),
       Written(109, SeriesSum(Column(fd, "Bill"))),
       Written(110, SeriesMean(Column(fd, "Price"))) >>

\* lines 112-134, after line 111 has written `at`
LinesAfterIdxMax(fd, at) ==
    << Written(111, at),
       Written(112, SeriesMean(Column(fd, "Temperature"))),
       Written(117, SeriesMax(Column(fd, "Energy"))),
       Written(118, SeriesMin(Column(fd, "Energy"))),
       Written(119, SeriesMax(Column(fd, "Bill"))),
       Written(120, SeriesMin(Column(fd, "Bill"))),
       Written(121, SeriesMax(Column(fd, "Price"))),
       Written(122, SeriesMin(Column(fd, "Price"))),
       Written(123, SeriesMax(Column(fd, "Temperature"))),
       Written(124, SeriesMin(Column(fd, "Temperature"))),
       Written(129, Frac(Len(fd), 1)),
       Written(130, IdxMax(fd, "Energy")),
       Written(131, SeriesMax(Column(fd, "Energy"))),
       Written(132, energy_to_bill_ratio(fd)),
       Written(133, consumption_per_degree(fd)),
       Written(134, price_range(fd)) >>

\* What idxmax does on a non-empty column holding NaN only depends on the
\* pandas release: it returns NaN (with a warning) or raises ValueError.
AllNaOutcomes == {"nan", "raise"}

\* idxmax of an empty column raises ValueError in every release
IdxMaxRaises(fd, c, allna) ==
    \/ fd = <<>>
    \/ DropNa(Column(fd, c)) = <<>> /\ allna = "raise"

Statistics(allna) ==
    /\ pc = "filtered"
    /\ IF IdxMaxRaises(filtered_data, "Price", allna)
       THEN /\ pc' = "stats_failed"
            /\ error' = "ValueError"
            /\ written' = LinesBeforeIdxMax(filtered_data, start_date)
       ELSE /\ pc' = "reported"
            /\ error' = "none"
            /\ written' = LinesBeforeIdxMax(filtered_data, start_date)
                  \o LinesAfterIdxMax(filtered_data,
                        IF DropNa(Column(filtered_data, "Price")) = <<>> THEN NaN
                        ELSE IdxMax(filtered_data, "Price"))
    /\ UNCHANGED <<electricity_raw, price_raw, electricity_df, price_df, merged_df,
                   interval, grouped_data, start_date, end_date, filtered_data>>

\* a widget change runs the script again from the top, on the same files
Rerun ==
    /\ pc \in {"reported", "stats_failed"}
    /\ pc' = "start"
    /\ error' = "none"
    /\ electricity_df' = <<>>
    /\ price_df' = <<>>
    /\ merged_df' = <<>>
    /\ interval' = "none"
    /\ grouped_data' = <<>>
    /\ start_date' = 0
    /\ end_date' = 0
    /\ filtered_data' = <<>>
    /\ written' = <<>>
    /\ UNCHANGED <<electricity_raw, price_raw>>

----------------------------------------------------------------------------
(* Inputs: the rows the two files are drawn from                           *)

TimeCell(ws, sep, day, hour, minute, sec) ==
    [ws |-> ws, sep |-> sep, day |-> day, hour |-> hour, minute |-> minute, sec |-> sec]

ElectricityRow(time, energy, temperature) ==
    [Time |-> time, Energy |-> energy, Temperature |-> temperature]

PriceRow(time, price) == [Time |-> time, Price |-> price]

\* well-formed rows of the readings file ('DD.MM.YYYY HH:MM', decimal comma)
GoodElectricityRows ==
    { ElectricityRow(TimeCell(TRUE, ".", 0, 10, 0, <<>>), <<"1", ",", "5">>, <<"-", "5", ",", "2">>),
      ElectricityRow(TimeCell(FALSE, ".", 0, 10, 0, <<>>), <<"3", ",", "0">>, <<"5", ",", "2">>),
      ElectricityRow(TimeCell(FALSE, ".", 0, 10, 30, <<>>), <<"2">>, <<"0", ",", "0">>),
      ElectricityRow(TimeCell(FALSE, ".", 6, 10, 0, <<>>), <<"2", ".", "5">>, <<"1", ",", "0">>),
      ElectricityRow(TimeCell(FALSE, ".", 7, 0, 0, <<>>), <<"4", ",", "0">>, <<"-", "3">>),
      ElectricityRow(TimeCell(FALSE, ".", 15, 11, 0, <<>>), <<"0", ",", "5">>, <<"2", ",", "0">>) }

\* rows with a non-numeric cell or a timestamp in the wrong format
BadElectricityRows ==
    { ElectricityRow(TimeCell(FALSE, ".", 0, 11, 0, <<>>), <<"1", ",", "5", ",", "2">>, <<"1", ",", "0">>),
      ElectricityRow(TimeCell(FALSE, ".", 0, 11, 0, <<>>), <<"1", ",", "0">>, <<"x">>),
      ElectricityRow(TimeCell(FALSE, "-", 0, 11, 0, <<0>>), <<"1", ",", "0">>, <<"1", ",", "0">>) }

ElectricityRows == GoodElectricityRows \cup BadElectricityRows

\* well-formed rows of the prices file ('DD-MM-YYYY HH:MM:SS', price in tenths of a cent)
GoodPriceRows ==
    { PriceRow(TimeCell(FALSE, "-", 0, 10, 0, <<0>>), 80),
      PriceRow(TimeCell(FALSE, "-", 0, 10, 0, <<0>>), 40),
      PriceRow(TimeCell(FALSE, "-", 0, 10, 30, <<0>>), 0),
      PriceRow(TimeCell(FALSE, "-", 6, 10, 0, <<0>>), 60),
      PriceRow(TimeCell(FALSE, "-", 7, 0, 0, <<0>>), -10),
      PriceRow(TimeCell(FALSE, "-", 15, 11, 0, <<0>>), 120) }

BadPriceRows ==
    { PriceRow(TimeCell(FALSE, ".", 0, 10, 0, <<>>), 80) }

PriceRows == GoodPriceRows \cup BadPriceRows

Tables(rows, n) == UNION {[1..k -> rows] : k \in 1..n}

StartState ==
    /\ pc = "start"
    /\ error = "none"
    /\ electricity_df = <<>>
    /\ price_df = <<>>
    /\ merged_df = <<>>
    /\ interval = "none"
    /\ grouped_data = <<>>
    /\ start_date = 0
    /\ end_date = 0
    /\ filtered_data = <<>>
    /\ written = <<>>

\* the loading stage alone, over every pair of tables within the bounds
LoadInit ==
    /\ electricity_raw \in Tables(ElectricityRows, MaxReadings)
    /\ price_raw \in Tables(PriceRows, MaxPrices)
    /\ StartState

SpecLoad == LoadInit /\ [][Load]_vars

\* the prices file of a run of the whole page: a price for every reading
\* hour, one timestamp listed twice
PriceFile ==
    << PriceRow(TimeCell(FALSE, "-", 0, 10, 0, <<0>>), 80),
       PriceRow(TimeCell(FALSE, "-", 0, 10, 30, <<0>>), 0),
       PriceRow(TimeCell(FALSE, "-", 0, 10, 0, <<0>>), 40),
       PriceRow(TimeCell(FALSE, "-", 6, 10, 0, <<0>>), 60),
       PriceRow(TimeCell(FALSE, "-", 7, 0, 0, <<0>>), -10),
       PriceRow(TimeCell(FALSE, "-", 15, 11, 0, <<0>>), 120) >>

Init ==
    /\ electricity_raw \in Tables(ElectricityRows, MaxReadings)
    /\ price_raw = PriceFile
    /\ StartState

Next ==
    \/ Load
    \/ \E g \in Intervals : Group(g)
    \/ \E s, e \in DateChoices : Filter(s, e)
    \/ \E allna \in AllNaOutcomes : Statistics(allna)
    \/ Rerun

Spec == Init /\ [][Next]_vars

----------------------------------------------------------------------------
(* Properties of the loading stage (lines 13-38), checked under SpecLoad   *)

Loaded == pc = "loaded"

\* timestamps of the two source tables after normalization
ElectricityTimes ==
    {ToDatetime(Strip(electricity_raw[i].Time)) : i \in 1..Len(electricity_raw)}
PriceTimes == {ToDatetime(price_raw[i].Time) : i \in 1..Len(price_raw)}

RowsAt(df, t) == {k \in 1..Len(df) : df[k].Time = t}

Smaller(a, b) == IF a <= b THEN a ELSE b

\* C1: the merged table holds exactly one record for every timestamp that
\* occurs in both the readings and the prices table, none for a timestamp
\* missing from either, and so at most min(|readings|, |prices|) records
\* counted after dedup.
C1_JoinInvariant ==
    Loaded =>
        /\ \A t \in ElectricityTimes \cup PriceTimes :
              Cardinality(RowsAt(merged_df, t)) =
                  IF t \in ElectricityTimes \cap PriceTimes THEN 1 ELSE 0
        /\ \A k \in 1..Len(merged_df) :
              merged_df[k].Time \in ElectricityTimes \cap PriceTimes
        /\ Len(merged_df) <= Smaller(Len(electricity_df), Len(price_df))

\* a load that joins some timestamp and leaves one out on each side
C1_Witness ==
    /\ Loaded
    /\ merged_df # <<>>
    /\ ElectricityTimes \ PriceTimes # {}
    /\ PriceTimes \ ElectricityTimes # {}

FirstAt(times, i) == MinOf({j \in 1..Len(times) : times[j] = times[i]})

\* each timestamp of raw survives in df exactly once, as the cleaned form of
\* the first raw row that carries it
FirstWins(clean, df) ==
    LET times == Column(clean, "Time")
    IN \A i \in 1..Len(clean) :
          /\ Cardinality(RowsAt(df, times[i])) = 1
          /\ \A k \in RowsAt(df, times[i]) : df[k] = clean[FirstAt(times, i)]

\* C2: in either source table a timestamp that appears several times
\* survives deduplication exactly once, as its first row in the original
\* order, and a row whose timestamp is unique is kept unchanged.
C2_DedupFirstWins ==
    Loaded =>
        /\ FirstWins(CleanElectricity(electricity_raw), electricity_df)
        /\ FirstWins(CleanPrice(price_raw), price_df)

\* both tables list a timestamp twice, with different values, next to a
\* timestamp listed once
C2_Witness ==
    /\ Loaded
    /\ \E i, j \in 1..Len(electricity_raw) :
          /\ i < j
          /\ ToDatetime(Strip(electricity_raw[i].Time)) = ToDatetime(Strip(electricity_raw[j].Time))
          /\ electricity_raw[i].Energy # electricity_raw[j].Energy
    /\ \E i, j \in 1..Len(price_raw) :
          /\ i < j
          /\ price_raw[i].Time = price_raw[j].Time
          /\ price_raw[i].Price # price_raw[j].Price
    /\ Len(electricity_df) < Len(electricity_raw)
    /\ Len(price_df) < Len(price_raw)

\* C3: every merged record has bill = price * energy / 100, from the energy
\* of the surviving reading and the price of the surviving price row of its
\* timestamp; energy 1.5 kWh at 8.0 cent/kWh is a bill of 0.12 EUR.
C3_BillFormula ==
    Loaded =>
        \A k \in 1..Len(merged_df) :
            LET m == merged_df[k] IN
            /\ \E i \in 1..Len(electricity_df) :
                  electricity_df[i].Time = m.Time /\ electricity_df[i].Energy = m.Energy
            /\ \E j \in 1..Len(price_df) :
                  price_df[j].Time = m.Time /\ price_df[j].Price = m.Price
            /\ m.Bill * Scale * Scale * 100 = m.Price * m.Energy * BillScale
            /\ (m.Energy = 15 /\ m.Price = 80) => m.Bill * 100 = 12 * BillScale

\* the record of 1.5 kWh at 8.0 cent/kWh, after a duplicate was dropped
C3_Witness ==
    /\ Loaded
    /\ \E k \in 1..Len(merged_df) : merged_df[k].Energy = 15 /\ merged_df[k].Price = 80
    /\ Len(electricity_df) < Len(electricity_raw)

ElectricityRowOk(r) ==
    /\ IsFloatLiteral(StrReplace(r.Energy, ",", "."))
    /\ IsFloatLiteral(StrReplace(r.Temperature, ",", "."))
    /\ MatchesElectricityFormat(Strip(r.Time))
PriceRowOk(r) == MatchesPriceFormat(r.Time)

\* C9: a malformed row is dropped and the load goes on: it never aborts,
\* and the merged table is the one of the well-formed rows.
C9_MalformedRowDropped ==
    pc # "start" =>
        /\ pc # "load_failed"
        /\ merged_df =
              WithBill(merge(
                  drop_duplicates(CleanElectricity(SelectSeq(electricity_raw, ElectricityRowOk))),
                  drop_duplicates(CleanPrice(SelectSeq(price_raw, PriceRowOk))), 1))

----------------------------------------------------------------------------
(* Properties of group_data (lines 41-75), checked under Spec              *)

\* group_data has returned (line 91)
Grouped == pc = "grouped"

GroupedWidth == IF interval = "Hourly" THEN Hour ELSE IF interval = "Daily" THEN Day ELSE Week

\* Start of the window a bucket collects: its index value, except that a
\* weekly bucket is indexed by the Sunday that ends its week.
WindowStart(b) == IF interval = "Weekly" THEN b.Time - 6 * Day ELSE b.Time

\* the merged records a bucket collects
Contributing(b) ==
    {r \in Range(merged_df) : WindowStart(b) <= r.Time /\ r.Time < WindowStart(b) + GroupedWidth}

RECURSIVE SumOver(_, _)
SumOver(S, c) ==
    IF S = {} THEN 0 ELSE LET r == CHOOSE x \in S : TRUE IN r[c] + SumOver(S \ {r}, c)

\* f is the finite value n/d
IsValue(f, n, d) == IsFinite(f) /\ f.num * d = n * f.den

\* C4: a bucket with at least one contributing record has the sums of
\* energy and bill and the arithmetic means of price and temperature over
\* exactly the merged records of its window.
C4_BucketSumsAndMeans ==
    Grouped =>
        \A k \in 1..Len(grouped_data) :
            LET b == grouped_data[k]
                rows == Contributing(b)
                n == Cardinality(rows)
            IN n > 0 =>
                /\ IsValue(b.Energy, SumOver(rows, "Energy"), Scale)
                /\ IsValue(b.Bill, SumOver(rows, "Bill"), BillScale)
                /\ IsValue(b.Price, SumOver(rows, "Price"), Scale * n)
                /\ IsValue(b.Temperature, SumOver(rows, "Temperature"), Scale * n)

\* a daily bucket of two records with different prices, its energy the sum
\* of the two (1.5 + 2.0 kWh)
C4_Witness ==
    /\ Grouped
    /\ interval = "Daily"
    /\ \E k \in 1..Len(grouped_data) :
          /\ Cardinality(Contributing(grouped_data[k])) = 2
          /\ \E r1, r2 \in Contributing(grouped_data[k]) : r1.Price # r2.Price
          /\ grouped_data[k].Energy = Frac(35, Scale)

\* C5: for every interval, and a merged table in any row order, the buckets
\* are in ascending order of period_start with no period_start twice.
C5_BucketsAscending ==
    Grouped =>
        \A k \in 1..(Len(grouped_data) - 1) :
            grouped_data[k].Time < grouped_data[k + 1].Time

\* a merged table out of timestamp order, grouped into several buckets
C5_Witness ==
    /\ Grouped
    /\ Len(merged_df) >= 2
    /\ merged_df[1].Time > merged_df[2].Time
    /\ Len(grouped_data) >= 2

\* C6 as stated: every returned bucket has at least one contributing record.
C6_NoEmptyBucket ==
    Grouped => \A k \in 1..Len(grouped_data) : Contributing(grouped_data[k]) # {}

\* C6 as the code has it: group_data returns one bucket for every window
\* from the window of the earliest merged record to the window of the
\* latest; a window in between with no record gives a row too, with energy
\* and bill sums 0 and undefined (NaN) price and temperature means.  Only
\* the first and the last bucket are sure to have a contributing record.
C6_GapBucketsZeroFilled ==
    Grouped =>
        /\ \A k \in 1..(Len(grouped_data) - 1) :
              grouped_data[k + 1].Time = grouped_data[k].Time + GroupedWidth
        /\ \A k \in 1..Len(grouped_data) :
              Contributing(grouped_data[k]) = {} =>
                  /\ k \notin {1, Len(grouped_data)}
                  /\ grouped_data[k].Energy = Zero
                  /\ grouped_data[k].Bill = Zero
                  /\ grouped_data[k].Price = NaN
                  /\ grouped_data[k].Temperature = NaN
        /\ \A r \in Range(merged_df) :
              \E k \in 1..Len(grouped_data) : r \in Contributing(grouped_data[k])

\* a gap between two records: a bucket with no contributing record
C6_Witness ==
    /\ Grouped
    /\ \E k \in 1..Len(grouped_data) : Contributing(grouped_data[k]) = {}

\* the buckets whose index value starts a right-open window holding r
StartingWindows(r) ==
    {k \in 1..Len(grouped_data) :
        grouped_data[k].Time <= r.Time /\ r.Time < grouped_data[k].Time + GroupedWidth}

\* C10 as stated: every merged record lies in exactly one bucket, whose
\* index value is the calendar-aligned start of a right-open window that
\* holds it; weekly windows start on Monday 00:00.
C10_IndexIsWindowStart ==
    Grouped =>
        /\ \A r \in Range(merged_df) : Cardinality(StartingWindows(r)) = 1
        /\ \A k \in 1..Len(grouped_data) : grouped_data[k].Time % GroupedWidth = 0

\* the buckets that collect r
Collecting(r) == {k \in 1..Len(grouped_data) : r \in Contributing(grouped_data[k])}

\* C10 as the code has it: every merged record contributes to exactly one
\* bucket, whose window is right-open and calendar-aligned (on the hour, at
\* midnight, on Monday 00:00).  The index value of an hourly or daily
\* bucket is the start of its window; the index value of a weekly bucket is
\* the Sunday 00:00 that ends its week, six days after the window's start.
C10_WindowsAligned ==
    Grouped =>
        /\ \A r \in Range(merged_df) : Cardinality(Collecting(r)) = 1
        /\ \A k \in 1..Len(grouped_data) :
              /\ WindowStart(grouped_data[k]) % GroupedWidth = 0
              /\ interval = "Weekly" => grouped_data[k].Time % Week = 6 * Day
        /\ SeriesSum(Column(grouped_data, "Energy"))
               = Frac(SumOver(Range(merged_df), "Energy"), Scale)

\* weekly buckets of a Sunday record and of the record at 00:00 of the
\* Monday after it: two buckets
C10_Witness ==
    /\ Grouped
    /\ interval = "Weekly"
    /\ \E r1, r2 \in Range(merged_df) :
          /\ r1.Time = 6 * Day + 10 * Hour
          /\ r2.Time = 7 * Day
          /\ Collecting(r1) # Collecting(r2)

----------------------------------------------------------------------------
(* Properties of the statistics (lines 97-134), checked under Spec         *)

StatisticsRan == pc \in {"reported", "stats_failed"}

ValueAt(n) == written[CHOOSE i \in 1..Len(written) : written[i].line = n].value

\* C7: an empty date range fails with an explicit empty-range error before
\* any statistic is computed or reported, with no partial report.
C7_EmptyRangeError ==
    (StatisticsRan /\ filtered_data = <<>>) =>
        /\ error = "EmptyRangeError"
        /\ written = <<>>

\* C8: over a non-empty range with a total bill of exactly 0 (a mean
\* temperature of exactly 0) the statistics do not raise, and the
\* energy-to-bill ratio (the consumption per degree) is reported as
\* "undefined", not as an infinite or not-a-number value.
C8_RatioGuard ==
    (StatisticsRan /\ filtered_data # <<>>) =>
        /\ SeriesSum(Column(filtered_data, "Bill")) = Zero =>
              pc = "reported" /\ ValueAt(132).kind \in {"fin", "undefined"}
        /\ SeriesMean(Column(filtered_data, "Temperature")) = Zero =>
              pc = "reported" /\ ValueAt(133).kind \in {"fin", "undefined"}

====
